---- MODULE Spec2Model ----
(***************************************************************************)
(* The LiveSession voice engine of Textgt.Aip as a state machine.          *)
(*                                                                         *)
(* Spec     : the tool-enabled LiveSession component (src/unnamed/part_001)*)
(*                                                                         *)
(* One step of the model is one task of the browser's event loop: a click, *)
(* a transport callback, the resolution of a network or device promise, an *)
(* audio 'ended' event.  JavaScript runs each task, and the microtasks it  *)
(* queues (continuations of promises that are already resolved, such as    *)
(* `await decodeAudioData(...)`, `await handleOpenApp(...)` and            *)
(* `sessionPromise.then(...)` once the session is open), to completion     *)
(* before the next task starts, so those are part of the same step.  The   *)
(* suspension points that do span tasks are modelled as positions:         *)
(* `await getUserMedia` (startPc) and the `await ai.models.generateContent`*)
(* inside a tool handler (msgs[m].pc = "await").                           *)
(***************************************************************************)
EXTENDS Integers, Sequences, FiniteSets, TLC

\* ---------------------------------------------------------------- bounds
MaxSessions == 2     \* startSession invocations explored
MaxWork     == 3     \* messages + tool calls + restarts explored in a run
MaxDur      == 2     \* longest audio chunk, in clock units
MaxClock    == 3     \* audio-clock ticks of one AudioContext

Sessions == 1..MaxSessions

Max(a, b) == IF a >= b THEN a ELSE b

\* ------------------------------------------------------------- the state
VARIABLES
  status,            \* useState 'disconnected' | 'connecting' | 'connected' | 'error'
  isConnected,       \* useState
  isSpeaking,        \* useState
  activeCard,        \* useState: "none" or the card's type
  isProcessingTool,  \* useState
  sessionRef,        \* useRef: 0 (null) or the session whose connect promise it holds
  audioContextRef,   \* useRef: 0 or the session that created the 24 kHz context
  inputContextRef,   \* useRef: 0 or the session that created the 16 kHz context
  streamRef,         \* useRef: 0 or the session whose MediaStream it holds
  processorRef,      \* useRef: 0 or the session whose ScriptProcessor it holds
  sourceRef,         \* useRef: 0 or the session whose MediaStreamSource it holds
  nextStartTimeRef,  \* useRef: the scheduling cursor
  scheduledSources,  \* useRef: the live-segment set (indices into sched)
  clock,             \* currentTime of the context audioContextRef refers to
  nsess,             \* number of startSession invocations so far
  startPc,           \* per invocation: position of the async startSession
  media,             \* per invocation: the MediaStream it acquired
  outCtx,            \* per invocation: its 24 kHz AudioContext
  inCtx,             \* per invocation: its 16 kHz AudioContext
  transport,         \* per invocation: the connection ai.live.connect opened
  closeCalls,        \* per invocation: session.close() requests made by cleanup
  processor,         \* per invocation: the ScriptProcessor its onopen built
  sched,             \* every source.start() so far, in scheduling order
  msgs,              \* every onmessage invocation so far, in arrival order
  results,           \* every sendToolResponse invocation so far, in order
  sinceError,        \* a transport error hit a connected session and no
                     \* startSession has been called since
  last,              \* the step taken last
  frame,             \* codec: the Float32 samples onaudioprocess handed over
  blob,              \* codec: the base64 text of a PCM blob
  channelData,       \* codec: the samples decodeAudioData wrote
  codecPc,           \* codec: how far the frame or blob has come
  captured,          \* capture: the buffers the processor has filled so far
  events,            \* capture: the audioprocess events queued, oldest first
  sendLog,           \* capture: every sendRealtimeInput invocation, in order
  appName,           \* open_app: the appName argument, a string of characters
  content,           \* open_app: the content argument
  openAppCard        \* open_app: the card handleOpenApp passed to setActiveCard

uiVars  == <<status, isConnected, isSpeaking, activeCard, isProcessingTool>>
refVars == <<sessionRef, audioContextRef, inputContextRef, streamRef,
             processorRef, sourceRef, nextStartTimeRef, scheduledSources>>
envVars == <<clock, nsess, startPc, media, outCtx, inCtx, transport, closeCalls>>
logVars == <<sched, msgs, results>>
codecVars == <<frame, blob, channelData, codecPc>>
captureVars == <<captured, events, sendLog>>
appVars == <<appName, content, openAppCard>>
vars    == <<uiVars, refVars, envVars, logVars, sinceError, last, codecVars, processor,
             captureVars, appVars>>

\* setActiveCard has not been called by handleOpenApp.
NoCard == [type |-> "none"]

\* ----------------------------------------------------------- tool calls
AsyncTools == {"generate_image", "generate_code", "google_search"}
ToolNames  == AsyncTools \cup {"open_app"}

\* The names a run draws tool calls from: two declared tools and one that
\* no declaration names.
CallNames == {"generate_image", "open_app", "set_alarm"}

\* arg: whether the call carries the argument its declaration requires.
Calls == {c \in [name : CallNames, arg : BOOLEAN] : ~c.arg => c.name = "open_app"}

Batches == UNION {[1..k -> Calls] : k \in 0..(MaxWork - 1)}

\* audio = 0: no inlineData; garbled: the payload does not decode.  The
\* messages a run draws from: tool calls with or without a chunk, a chunk
\* alone (sound or garbled), or turnComplete alone.
Messages == {m \in [calls : Batches, audio : 0..MaxDur, garbled : BOOLEAN, tc : BOOLEAN] :
               /\ m.garbled => (m.audio = 1 /\ m.calls = <<>>)
               /\ m.tc => (m.calls = <<>> /\ m.audio = 0)
               /\ (m.calls # <<>> \/ m.audio > 0 \/ m.tc)}

\* msgs keeps a message's payload only while the audio half has not been
\* reached: the handler is suspended, or a tool handler's throw ended it.
Logged(rec) ==
  IF rec.pc = "await" \/ (rec.pc = "threw" /\ rec.idx > 0) THEN rec
  ELSE [rec EXCEPT !.audio = 0, !.garbled = FALSE, !.tc = FALSE]

CallsSoFar == LET n[i \in 0..Len(msgs)] == IF i = 0 THEN 0 ELSE n[i-1] + Len(msgs[i].calls)
              IN n[Len(msgs)]

\* What a run has spent of MaxWork.
Work == Len(msgs) + CallsSoFar + (IF nsess > 1 THEN nsess - 1 ELSE 0)

\* A ScriptProcessor: ctx is the session whose 16 kHz context hosts it (0:
\* none built), on tells that it is connected to that context's destination,
\* late that an audioprocess event the audio thread queued before the
\* processor was disconnected may still be waiting in the event loop.
NoProcessor == [ctx |-> 0, on |-> FALSE, late |-> FALSE]

\* processorRef.current.disconnect() on the processor t built.
Disconnect(pr, t) ==
  IF t # 0 THEN [pr EXCEPT ![t].on = FALSE, ![t].late = pr[t].on \/ pr[t].late] ELSE pr

\* ------------------------------------------------------------------ Init
InitSession ==
  /\ status = "disconnected" /\ isConnected = FALSE /\ isSpeaking = FALSE
  /\ activeCard = "none" /\ isProcessingTool = FALSE
  /\ sessionRef = 0 /\ audioContextRef = 0 /\ inputContextRef = 0
  /\ streamRef = 0 /\ processorRef = 0 /\ sourceRef = 0
  /\ nextStartTimeRef = 0 /\ scheduledSources = {}
  /\ clock = 0 /\ nsess = 0
  /\ startPc = [n \in Sessions |-> "none"]
  /\ media = [n \in Sessions |-> "none"]
  /\ outCtx = [n \in Sessions |-> "none"]
  /\ inCtx = [n \in Sessions |-> "none"]
  /\ transport = [n \in Sessions |-> "none"]
  /\ closeCalls = [n \in Sessions |-> 0]
  /\ processor = [n \in Sessions |-> NoProcessor]
  /\ sched = <<>> /\ msgs = <<>> /\ results = <<>>
  /\ sinceError = FALSE
  /\ last = "init"

Init ==
  /\ InitSession
  /\ frame = <<>> /\ blob = <<>> /\ channelData = <<>> /\ codecPc = "idle"
  /\ captured = 0 /\ events = <<>> /\ sendLog = <<>>
  /\ appName = <<>> /\ content = <<>> /\ openAppCard = NoCard

\* --------------------------------------------------------------- cleanup
\* session.close() on the transport sessionRef holds: an open connection
\* starts closing; on one still connecting the close waits for the open.
RequestClose(tr, t) ==
  IF t # 0 /\ tr[t] = "open" THEN [tr EXCEPT ![t] = "closing"] ELSE tr

\* A cleanup that clears the live set without stopping its members.
StopNone(sc, live) == sc

\* source.stop() on every member of the live set.
StopAll(sc, live) ==
  [i \in DOMAIN sc |-> IF i \in live THEN [sc[i] EXCEPT !.phase = "stopped"] ELSE sc[i]]

\* A cleanup that forgets the capture side: the stream and the 16 kHz
\* context stay as they are.
cleanupKeepsCapture(s, tr) ==
  /\ transport' = RequestClose(tr, sessionRef)
  /\ closeCalls' = IF sessionRef # 0 THEN [closeCalls EXCEPT ![sessionRef] = @ + 1]
                   ELSE closeCalls
  /\ sessionRef' = 0
  /\ processor' = Disconnect(processor, processorRef)
  /\ processorRef' = 0
  /\ sourceRef' = 0
  /\ outCtx' = IF audioContextRef # 0 THEN [outCtx EXCEPT ![audioContextRef] = "closed"]
               ELSE outCtx
  /\ audioContextRef' = 0
  /\ sched' = StopAll(sched, scheduledSources)
  /\ scheduledSources' = {}
  /\ isConnected' = FALSE
  /\ status' = s
  /\ isSpeaking' = FALSE
  /\ activeCard' = "none"
  /\ isProcessingTool' = FALSE
  /\ msgs' = [m \in DOMAIN msgs |->
                IF msgs[m].pc = "await" THEN [msgs[m] EXCEPT !.stale = TRUE] ELSE msgs[m]]
  /\ UNCHANGED <<media, streamRef, inCtx, inputContextRef>>
  /\ UNCHANGED <<nextStartTimeRef, clock, nsess, results>>

\* cleanup(), and the setStatus(s) that ends the handler that called it
\* (React batches the handler's updates, the last setStatus wins).  tr is
\* the transports as the event that triggered the handler left them.
cleanupBody(s, tr) ==
  /\ transport' = RequestClose(tr, sessionRef)
  /\ closeCalls' = IF sessionRef # 0 THEN [closeCalls EXCEPT ![sessionRef] = @ + 1]
                   ELSE closeCalls
  /\ sessionRef' = 0
  /\ processor' = Disconnect(processor, processorRef)
  /\ processorRef' = 0
  /\ sourceRef' = 0
  /\ media' = IF streamRef # 0 THEN [media EXCEPT ![streamRef] = "stopped"] ELSE media
  /\ streamRef' = 0
  /\ inCtx' = IF inputContextRef # 0 THEN [inCtx EXCEPT ![inputContextRef] = "closed"]
              ELSE inCtx
  /\ inputContextRef' = 0
  /\ outCtx' = IF audioContextRef # 0 THEN [outCtx EXCEPT ![audioContextRef] = "closed"]
               ELSE outCtx
  /\ audioContextRef' = 0
  /\ sched' = StopAll(sched, scheduledSources)
  /\ scheduledSources' = {}
  /\ isConnected' = FALSE
  /\ status' = s
  /\ isSpeaking' = FALSE
  /\ activeCard' = "none"
  /\ isProcessingTool' = FALSE
  \* bookkeeping: the handlers in flight now outlive a cleanup
  /\ msgs' = [m \in DOMAIN msgs |->
                IF msgs[m].pc = "await" THEN [msgs[m] EXCEPT !.stale = TRUE] ELSE msgs[m]]
  /\ UNCHANGED <<nextStartTimeRef, clock, nsess, results>>

\* The "End Session" button, rendered while isConnected.
ClickEnd ==
  /\ isConnected
  /\ cleanupBody("disconnected", transport)
  /\ last' = "cleanup"
  /\ UNCHANGED <<codecVars, captureVars, appVars>>
  /\ UNCHANGED <<startPc, sinceError>>

\* ---------------------------------------------------------- startSession
\* startSession up to its first suspension, `await getUserMedia`.
startSession ==
  /\ nsess < MaxSessions
  /\ nsess >= 1 => Work < MaxWork
  /\ LET n == nsess + 1 IN
       /\ nsess' = n
       /\ status' = "connecting"
       /\ audioContextRef' = n
       /\ inputContextRef' = n
       /\ outCtx' = [outCtx EXCEPT ![n] = "running"]
       /\ inCtx' = [inCtx EXCEPT ![n] = "running"]
       /\ clock' = 0
       /\ nextStartTimeRef' = clock'
       /\ startPc' = [startPc EXCEPT ![n] = "awaitMedia"]
  /\ UNCHANGED <<isConnected, isSpeaking, activeCard, isProcessingTool>>
  /\ UNCHANGED <<sessionRef, streamRef, processorRef, sourceRef, scheduledSources>>
  /\ UNCHANGED <<media, transport, closeCalls, logVars>>

\* The "Start Session" button: rendered while !isConnected, disabled while
\* status is 'connecting'.
ClickStart ==
  /\ ~isConnected
  /\ status # "connecting"
  /\ startSession
  /\ sinceError' = FALSE
  /\ last' = "startSession"
  /\ UNCHANGED <<codecVars, captureVars, appVars>>
  /\ UNCHANGED processor

\* getUserMedia resolved: the rest of startSession's try block.
MediaGranted(n) ==
  /\ startPc[n] = "awaitMedia"
  /\ startPc' = [startPc EXCEPT ![n] = "done"]
  /\ media' = [media EXCEPT ![n] = "live"]
  /\ streamRef' = n
  /\ transport' = [transport EXCEPT ![n] = "connecting"]
  /\ sessionRef' = n
  /\ last' = "mediaGranted"
  /\ UNCHANGED <<codecVars, captureVars, appVars>>
  /\ UNCHANGED processor
  /\ UNCHANGED <<uiVars, audioContextRef, inputContextRef, processorRef, sourceRef,
                 nextStartTimeRef, scheduledSources>>
  /\ UNCHANGED <<clock, nsess, outCtx, inCtx, closeCalls, logVars, sinceError>>

\* getUserMedia rejected: startSession's catch block.
MediaDenied(n) ==
  /\ startPc[n] = "awaitMedia"
  /\ cleanupBody("error", transport)
  /\ startPc' = [startPc EXCEPT ![n] = "failed"]
  /\ last' = "mediaDenied"
  /\ UNCHANGED <<codecVars, captureVars, appVars>>
  /\ UNCHANGED sinceError

\* ------------------------------------------------- transport callbacks
\* onopen of the connection session n opened.  A session.close() that
\* cleanup requested while the connect promise was pending runs as soon as
\* the promise resolves, right after this callback.
onopen(n) ==
  /\ transport[n] = "connecting"
  /\ transport' = [transport EXCEPT ![n] = IF closeCalls[n] > 0 THEN "closing" ELSE "open"]
  /\ status' = "connected"
  /\ isConnected' = TRUE
  /\ IF inputContextRef = 0
       THEN UNCHANGED <<sourceRef, processorRef, processor>>
       ELSE /\ sourceRef' = n /\ processorRef' = n
            /\ processor' = [processor EXCEPT ![n] = [ctx |-> inputContextRef, on |-> TRUE,
                                                      late |-> FALSE]]
  /\ last' = "onopen"
  /\ UNCHANGED <<codecVars, captureVars, appVars>>
  /\ UNCHANGED <<isSpeaking, activeCard, isProcessingTool>>
  /\ UNCHANGED <<sessionRef, audioContextRef, inputContextRef, streamRef,
                 nextStartTimeRef, scheduledSources>>
  /\ UNCHANGED <<clock, nsess, startPc, media, outCtx, inCtx, closeCalls, logVars>>
  /\ UNCHANGED sinceError

\* The promise ai.live.connect returned rejects before any connection is
\* made (the request is refused, the key is invalid): startSession did not
\* await it and attached no rejection handler, so no code of the component
\* runs; a later sessionRef.current.then(s => s.close()) has no effect.
connectRejected(n) ==
  /\ transport[n] = "connecting"
  /\ transport' = [transport EXCEPT ![n] = "rejected"]
  /\ last' = "connectRejected"
  /\ UNCHANGED <<codecVars, captureVars, appVars>>
  /\ UNCHANGED processor
  /\ UNCHANGED <<uiVars, refVars, logVars, sinceError>>
  /\ UNCHANGED <<clock, nsess, startPc, media, outCtx, inCtx, closeCalls>>

\* onerror: () => { cleanup(); setStatus('error'); }.  The connection is
\* gone; its close event is still to come.
onerror(n) ==
  /\ transport[n] \in {"connecting", "open"}
  /\ cleanupBody("error", [transport EXCEPT ![n] = "errored"])
  /\ sinceError' = (sinceError \/ status = "connected")
  /\ last' = "onerror"
  /\ UNCHANGED <<codecVars, captureVars, appVars>>
  /\ UNCHANGED startPc

\* onclose: () => cleanup().  Delivered when the peer closes, when a close
\* requested by cleanup completes, and after an error.
onclose(n) ==
  /\ transport[n] \in {"open", "closing", "errored"}
  /\ cleanupBody("disconnected", [transport EXCEPT ![n] = "closed"])
  /\ last' = "onclose"
  /\ UNCHANGED <<codecVars, captureVars, appVars>>
  /\ UNCHANGED <<startPc, sinceError>>

\* ----------------------------------------------------------- onmessage
\* The card a tool shows when it succeeds.
CardOf(name) ==
  CASE name = "generate_image" -> "image"
    [] name = "generate_code"  -> "code"
    [] OTHER                   -> "link"

\* sendToolResponse({ name: fc.name, id: fc.id, response: { result } }).
\* The call id is (msg, pos); text is "ok" for a handler's success text,
\* "fail" for its failure text, "done" for the default "Done"; post tells
\* that a cleanup ran between the call's arrival and this send.
ToolResponse(m, i, name, text, post) ==
  [msg |-> m, pos |-> i, text |-> text, post |-> post]

\* The for-loop over msg.toolCall.functionCalls from call i on, run until
\* it suspends in a handler ("await"), a handler throws ("threw") or the
\* loop ends ("audio").  st carries isProcessingTool (proc), activeCard
\* (card) and the sendToolResponse log (res).
RECURSIVE RunCalls(_, _, _, _, _)
RunCalls(st, m, calls, i, post) ==
  IF i > Len(calls) THEN [st EXCEPT !.pc = "audio", !.idx = 0]
  ELSE LET c == calls[i] IN
    IF c.name \in AsyncTools
      \* setIsProcessingTool(true), then await ai.models.generateContent
      THEN [st EXCEPT !.proc = TRUE, !.pc = "await", !.idx = i]
    ELSE IF c.name = "open_app"
      THEN IF ~c.arg
             \* appName.toLowerCase() on undefined: handleOpenApp rejects
             THEN [st EXCEPT !.proc = TRUE, !.pc = "threw", !.idx = i]
             ELSE RunCalls([st EXCEPT !.proc = FALSE, !.card = "link",
                                      !.res = Append(@, ToolResponse(m, i, c.name, "ok", post))],
                           m, calls, i + 1, post)
    \* no branch matches the name: result stays "Done"
    ELSE RunCalls([st EXCEPT !.res = Append(@, ToolResponse(m, i, c.name, "done", post))],
                  m, calls, i + 1, post)

\* A handler suspended in generateContent resumes with the outcome out
\* ("ok": the card is set and the success text returned; "fail": a failure
\* text), its finally block clears isProcessingTool, and the loop goes on.
ResumeCalls(st, m, calls, i, out, post) ==
  RunCalls([st EXCEPT !.proc = FALSE,
                      !.card = IF out = "ok" THEN CardOf(calls[i].name) ELSE @,
                      !.res = Append(@, ToolResponse(m, i, calls[i].name, out, post))],
           m, calls, i + 1, post)

\* The audio half of onmessage fails in base64ToUint8Array / decodeAudioData.
DecodeThrows(msg) == msg.audio > 0 /\ audioContextRef # 0 /\ msg.garbled

\* A scheduler that starts every chunk at the current clock, whatever the
\* cursor says.
ScheduleAudioAtClock(m, msg) ==
  IF msg.audio > 0 /\ audioContextRef # 0
    THEN IF msg.garbled
      THEN /\ isSpeaking' = TRUE
           /\ nextStartTimeRef' = Max(nextStartTimeRef, clock)
           /\ UNCHANGED <<sched, scheduledSources>>
      ELSE /\ sched' = Append(sched, [ctx |-> audioContextRef, msg |-> m, start |-> clock,
                                      dur |-> msg.audio, phase |-> "live"])
           /\ scheduledSources' = scheduledSources \cup {Len(sched) + 1}
           /\ nextStartTimeRef' = clock + msg.audio
           /\ isSpeaking' = ~msg.tc
    ELSE /\ isSpeaking' = IF msg.tc THEN FALSE ELSE isSpeaking
         /\ UNCHANGED <<sched, scheduledSources, nextStartTimeRef>>

\* A scheduler that sets the cursor from the clock instead of the start
\* time it has just used.
ScheduleAudioCursorFromClock(m, msg) ==
  IF msg.audio > 0 /\ audioContextRef # 0
    THEN IF msg.garbled
      THEN /\ isSpeaking' = TRUE
           /\ nextStartTimeRef' = Max(nextStartTimeRef, clock)
           /\ UNCHANGED <<sched, scheduledSources>>
      ELSE LET start == Max(nextStartTimeRef, clock) IN
           /\ sched' = Append(sched, [ctx |-> audioContextRef, msg |-> m, start |-> start,
                                      dur |-> msg.audio, phase |-> "live"])
           /\ scheduledSources' = scheduledSources \cup {Len(sched) + 1}
           /\ nextStartTimeRef' = clock + msg.audio
           /\ isSpeaking' = ~msg.tc
    ELSE /\ isSpeaking' = IF msg.tc THEN FALSE ELSE isSpeaking
         /\ UNCHANGED <<sched, scheduledSources, nextStartTimeRef>>

\* A scheduler that forgets to advance the cursor past the chunk.
ScheduleAudioCursorStays(m, msg) ==
  IF msg.audio > 0 /\ audioContextRef # 0
    THEN IF msg.garbled
      THEN /\ isSpeaking' = TRUE
           /\ nextStartTimeRef' = Max(nextStartTimeRef, clock)
           /\ UNCHANGED <<sched, scheduledSources>>
      ELSE LET start == Max(nextStartTimeRef, clock) IN
           /\ sched' = Append(sched, [ctx |-> audioContextRef, msg |-> m, start |-> start,
                                      dur |-> msg.audio, phase |-> "live"])
           /\ scheduledSources' = scheduledSources \cup {Len(sched) + 1}
           /\ nextStartTimeRef' = start
           /\ isSpeaking' = ~msg.tc
    ELSE /\ isSpeaking' = IF msg.tc THEN FALSE ELSE isSpeaking
         /\ UNCHANGED <<sched, scheduledSources, nextStartTimeRef>>

\* The audio half of onmessage (and the turnComplete line after it) for
\* message number m.
ScheduleAudio(m, msg) ==
  IF msg.audio > 0 /\ audioContextRef # 0
    THEN IF msg.garbled
      THEN /\ isSpeaking' = TRUE
           /\ nextStartTimeRef' = Max(nextStartTimeRef, clock)
           /\ UNCHANGED <<sched, scheduledSources>>
      ELSE LET start == Max(nextStartTimeRef, clock) IN
           /\ sched' = Append(sched, [ctx |-> audioContextRef, msg |-> m, start |-> start,
                                      dur |-> msg.audio, phase |-> "live"])
           /\ scheduledSources' = scheduledSources \cup {Len(sched) + 1}
           /\ nextStartTimeRef' = start + msg.audio
           /\ isSpeaking' = ~msg.tc
    ELSE /\ isSpeaking' = IF msg.tc THEN FALSE ELSE isSpeaking
         /\ UNCHANGED <<sched, scheduledSources, nextStartTimeRef>>

\* What one run of the handler of message m leaves: the tool state st and,
\* when the loop ended, the audio half.
Handle(m, msg, st) ==
  /\ isProcessingTool' = st.proc
  /\ activeCard' = st.card
  /\ results' = st.res
  /\ IF st.pc = "audio"
       THEN ScheduleAudio(m, msg)
       ELSE UNCHANGED <<isSpeaking, sched, scheduledSources, nextStartTimeRef>>

PcAfter(msg, st) ==
  IF st.pc = "audio" THEN (IF DecodeThrows(msg) THEN "threw" ELSE "done") ELSE st.pc

ToolState == [proc |-> isProcessingTool, card |-> activeCard, res |-> results,
              pc |-> "run", idx |-> 0]

\* onmessage of the connection session n opened, up to its first
\* suspension in a tool handler (or to its end).
onmessage(n, msg) ==
  /\ transport[n] = "open"
  /\ Work + 1 + Len(msg.calls) <= MaxWork
  /\ LET m  == Len(msgs) + 1
         st == RunCalls(ToolState, m, msg.calls, 1, FALSE)
     IN /\ Handle(m, msg, st)
        /\ msgs' = Append(msgs, Logged([sess |-> n, calls |-> msg.calls,
                                        audio |-> msg.audio, garbled |-> msg.garbled,
                                        tc |-> msg.tc, pc |-> PcAfter(msg, st),
                                        idx |-> st.idx, stale |-> FALSE]))
  /\ last' = "onmessage"
  /\ UNCHANGED <<codecVars, captureVars, appVars>>
  /\ UNCHANGED processor
  /\ UNCHANGED <<status, isConnected>>
  /\ UNCHANGED <<sessionRef, audioContextRef, inputContextRef, streamRef, processorRef, sourceRef>>
  /\ UNCHANGED <<envVars, sinceError>>

\* generateContent settles for the handler message m is suspended in; the
\* rest of onmessage runs up to the next suspension.
ToolDone(m, out) ==
  /\ m \in DOMAIN msgs
  /\ msgs[m].pc = "await"
  /\ LET msg == msgs[m]
         st  == ResumeCalls(ToolState, m, msg.calls, msg.idx, out, msg.stale)
     IN /\ Handle(m, msg, st)
        /\ msgs' = [msgs EXCEPT ![m] = Logged([msg EXCEPT !.pc = PcAfter(msg, st),
                                                           !.idx = st.idx])]
  /\ last' = "toolDone"
  /\ UNCHANGED <<codecVars, captureVars, appVars>>
  /\ UNCHANGED processor
  /\ UNCHANGED <<status, isConnected>>
  /\ UNCHANGED <<sessionRef, audioContextRef, inputContextRef, streamRef, processorRef, sourceRef>>
  /\ UNCHANGED <<envVars, sinceError>>

\* -------------------------------------------------------------- capture
\* A handler that gives up capturing when a frame cannot be sent.
onaudioprocessStopsOnFailure(n, ok) ==
  /\ \/ processor[n].on /\ inCtx[processor[n].ctx] = "running"
     \/ processor[n].late
  /\ ~ok => transport[n] = "open"
  /\ processor' = IF transport[n] = "open" /\ ok
                    THEN [processor EXCEPT ![n].late = FALSE]
                    ELSE [processor EXCEPT ![n].late = FALSE, ![n].on = FALSE]
  /\ last' = IF transport[n] = "open" /\ ok THEN "frameSent" ELSE "frameDropped"
  /\ UNCHANGED <<uiVars, refVars, envVars, logVars, sinceError, codecVars, captureVars, appVars>>

\* processor.onaudioprocess of the processor onopen(n) built: the frame is
\* encoded and handed to session n (sessionPromise is resolved by then, the
\* then-callback runs in the same task).  A connection that is no longer
\* open discards the frame, and on an open one the send may fail (ok =
\* FALSE): the rejection of the then-promise is handled by nobody.  The
\* handler checks nothing: an event that was queued before cleanup
\* disconnected the processor runs it all the same.
onaudioprocess(n, ok) ==
  /\ \/ processor[n].on /\ inCtx[processor[n].ctx] = "running"
     \/ processor[n].late
  /\ ~ok => transport[n] = "open"
  /\ processor' = [processor EXCEPT ![n].late = FALSE]
  /\ last' = IF transport[n] = "open" /\ ok THEN "frameSent" ELSE "frameDropped"
  /\ UNCHANGED <<uiVars, refVars, envVars, logVars, sinceError, codecVars, captureVars, appVars>>

\* ------------------------------------------------------------- playback
\* The 'ended' listener of segment i: fired when the segment has played to
\* its end, and when cleanup's stop() ended it.
onended(i) ==
  /\ i \in DOMAIN sched
  /\ \/ sched[i].phase = "live" /\ clock >= sched[i].start + sched[i].dur
     \/ sched[i].phase = "stopped"
  /\ sched' = [sched EXCEPT ![i].phase = "ended"]
  /\ scheduledSources' = scheduledSources \ {i}
  /\ isSpeaking' = IF scheduledSources \ {i} = {} THEN FALSE ELSE isSpeaking
  /\ last' = "onended"
  /\ UNCHANGED <<codecVars, captureVars, appVars>>
  /\ UNCHANGED processor
  /\ UNCHANGED <<status, isConnected, activeCard, isProcessingTool>>
  /\ UNCHANGED <<sessionRef, audioContextRef, inputContextRef, streamRef, processorRef,
                 sourceRef, nextStartTimeRef>>
  /\ UNCHANGED <<envVars, msgs, results, sinceError>>

\* The audio clock of the current context advances.
Tick ==
  /\ audioContextRef # 0
  /\ clock < MaxClock
  /\ clock' = clock + 1
  /\ last' = "tick"
  /\ UNCHANGED <<codecVars, captureVars, appVars>>
  /\ UNCHANGED processor
  /\ UNCHANGED <<uiVars, refVars, logVars>>
  /\ UNCHANGED <<nsess, startPc, media, outCtx, inCtx, transport, closeCalls, sinceError>>

\* ------------------------------------------------------------------ Spec
Next ==
  \/ ClickStart
  \/ ClickEnd
  \/ \E n \in Sessions : MediaGranted(n)
  \/ \E n \in Sessions : MediaDenied(n)
  \/ \E n \in Sessions : onopen(n)
  \/ \E n \in Sessions : connectRejected(n)
  \/ \E n \in Sessions : onerror(n)
  \/ \E n \in Sessions : onclose(n)
  \/ \E n \in Sessions, msg \in Messages : onmessage(n, msg)
  \/ \E m \in 1..MaxWork, out \in {"ok", "fail"} : ToolDone(m, out)
  \/ \E i \in 1..MaxWork : onended(i)
  \/ \E n \in Sessions, ok \in BOOLEAN : onaudioprocess(n, ok)
  \/ Tick

Spec == Init /\ [][Next]_vars

\* What the platform guarantees to deliver: the getUserMedia promise
\* settles, a generateContent request settles, a connection that errored or
\* was asked to close reports its close, a segment's 'ended' event fires,
\* the audio clock runs.  Clicks, server messages, transport errors and the
\* opening of a connection are not guaranteed.
Fairness ==
  /\ WF_vars(\E n \in Sessions : MediaGranted(n) \/ MediaDenied(n))
  /\ WF_vars(\E m \in 1..MaxWork, out \in {"ok", "fail"} : ToolDone(m, out))
  /\ WF_vars(\E n \in Sessions : transport[n] \in {"closing", "errored"} /\ onclose(n))
  /\ WF_vars(\E i \in 1..MaxWork : onended(i))
  /\ WF_vars(Tick)

SpecFair == Spec /\ Fairness

\* ===================================================================
\* components/LiveSession.tsx: the component without tools.  It keeps no
\* processorRef / sourceRef, never resets the cursor, and its onerror only
\* sets the status.
\* ===================================================================
AudioMessages == {m \in Messages : m.calls = <<>> /\ ~m.tc}

cleanupTsx(s, tr) ==
  /\ transport' = RequestClose(tr, sessionRef)
  /\ closeCalls' = IF sessionRef # 0 THEN [closeCalls EXCEPT ![sessionRef] = @ + 1]
                   ELSE closeCalls
  /\ sessionRef' = 0
  /\ media' = IF streamRef # 0 THEN [media EXCEPT ![streamRef] = "stopped"] ELSE media
  /\ streamRef' = 0
  /\ inCtx' = IF inputContextRef # 0 THEN [inCtx EXCEPT ![inputContextRef] = "closed"]
              ELSE inCtx
  /\ inputContextRef' = 0
  /\ outCtx' = IF audioContextRef # 0 THEN [outCtx EXCEPT ![audioContextRef] = "closed"]
               ELSE outCtx
  /\ audioContextRef' = 0
  /\ sched' = StopAll(sched, scheduledSources)
  /\ scheduledSources' = {}
  /\ isConnected' = FALSE
  /\ status' = s
  /\ isSpeaking' = FALSE
  /\ activeCard' = "none"
  /\ isProcessingTool' = FALSE
  /\ UNCHANGED <<processorRef, sourceRef, nextStartTimeRef, clock, nsess, msgs, results>>

\* startSession up to `await getUserMedia`: no cursor reset.
startSessionTsx ==
  /\ nsess < MaxSessions
  /\ nsess >= 1 => Work < MaxWork
  /\ LET n == nsess + 1 IN
       /\ nsess' = n
       /\ status' = "connecting"
       /\ audioContextRef' = n
       /\ inputContextRef' = n
       /\ outCtx' = [outCtx EXCEPT ![n] = "running"]
       /\ inCtx' = [inCtx EXCEPT ![n] = "running"]
       /\ clock' = 0
       /\ startPc' = [startPc EXCEPT ![n] = "awaitMedia"]
  /\ UNCHANGED <<isConnected, isSpeaking, activeCard, isProcessingTool>>
  /\ UNCHANGED <<sessionRef, streamRef, processorRef, sourceRef, nextStartTimeRef,
                 scheduledSources>>
  /\ UNCHANGED <<media, transport, closeCalls, logVars>>

\* onClick={isConnected ? cleanup : startSession}
ClickStartTsx ==
  /\ ~isConnected
  /\ startSessionTsx
  /\ sinceError' = FALSE
  /\ last' = "startSession"
  /\ UNCHANGED <<codecVars, captureVars, appVars>>
  /\ UNCHANGED processor

ClickEndTsx ==
  /\ isConnected
  /\ cleanupTsx("disconnected", transport)
  /\ last' = "cleanup"
  /\ UNCHANGED <<codecVars, captureVars, appVars>>
  /\ UNCHANGED processor
  /\ UNCHANGED <<startPc, sinceError>>

MediaGrantedTsx(n) ==
  /\ startPc[n] = "awaitMedia"
  /\ startPc' = [startPc EXCEPT ![n] = "done"]
  /\ media' = [media EXCEPT ![n] = "live"]
  /\ streamRef' = n
  /\ transport' = [transport EXCEPT ![n] = "connecting"]
  /\ sessionRef' = n
  /\ last' = "mediaGranted"
  /\ UNCHANGED <<codecVars, captureVars, appVars>>
  /\ UNCHANGED processor
  /\ UNCHANGED <<uiVars, audioContextRef, inputContextRef, processorRef, sourceRef,
                 nextStartTimeRef, scheduledSources>>
  /\ UNCHANGED <<clock, nsess, outCtx, inCtx, closeCalls, logVars, sinceError>>

\* catch (e) { cleanup(); setStatus('error'); }
MediaDeniedTsx(n) ==
  /\ startPc[n] = "awaitMedia"
  /\ cleanupTsx("error", transport)
  /\ startPc' = [startPc EXCEPT ![n] = "failed"]
  /\ last' = "mediaDenied"
  /\ UNCHANGED <<codecVars, captureVars, appVars>>
  /\ UNCHANGED processor
  /\ UNCHANGED sinceError

\* onopen: the two state updates; the capture nodes it builds are held in
\* no ref.
onopenTsx(n) ==
  /\ transport[n] = "connecting"
  /\ transport' = [transport EXCEPT ![n] = IF closeCalls[n] > 0 THEN "closing" ELSE "open"]
  /\ status' = "connected"
  /\ isConnected' = TRUE
  /\ last' = "onopen"
  /\ UNCHANGED <<codecVars, captureVars, appVars>>
  /\ UNCHANGED processor
  /\ UNCHANGED <<isSpeaking, activeCard, isProcessingTool, refVars>>
  /\ UNCHANGED <<clock, nsess, startPc, media, outCtx, inCtx, closeCalls, logVars>>
  /\ UNCHANGED sinceError

\* onmessage: the audio chunk, if any, is decoded and then scheduled.
onmessageTsx(n, msg) ==
  /\ transport[n] = "open"
  /\ Work + 1 <= MaxWork
  /\ LET m == Len(msgs) + 1 IN
       /\ IF msg.audio > 0 /\ audioContextRef # 0
            THEN IF msg.garbled
              THEN /\ isSpeaking' = TRUE
                   /\ UNCHANGED <<sched, scheduledSources, nextStartTimeRef>>
              ELSE LET start == Max(nextStartTimeRef, clock) IN
                   /\ isSpeaking' = TRUE
                   /\ sched' = Append(sched, [ctx |-> audioContextRef, msg |-> m,
                                              start |-> start, dur |-> msg.audio,
                                              phase |-> "live"])
                   /\ scheduledSources' = scheduledSources \cup {Len(sched) + 1}
                   /\ nextStartTimeRef' = start + msg.audio
            ELSE UNCHANGED <<isSpeaking, sched, scheduledSources, nextStartTimeRef>>
       /\ msgs' = Append(msgs, Logged([sess |-> n, calls |-> msg.calls,
                                       audio |-> msg.audio, garbled |-> msg.garbled,
                                       tc |-> msg.tc,
                                       pc |-> IF DecodeThrows(msg) THEN "threw" ELSE "done",
                                       idx |-> 0, stale |-> FALSE]))
  /\ last' = "onmessage"
  /\ UNCHANGED <<codecVars, captureVars, appVars>>
  /\ UNCHANGED processor
  /\ UNCHANGED <<status, isConnected, activeCard, isProcessingTool>>
  /\ UNCHANGED <<sessionRef, audioContextRef, inputContextRef, streamRef, processorRef, sourceRef>>
  /\ UNCHANGED <<envVars, results, sinceError>>

\* src.onended
onendedTsx(i) ==
  /\ i \in DOMAIN sched
  /\ \/ sched[i].phase = "live" /\ clock >= sched[i].start + sched[i].dur
     \/ sched[i].phase = "stopped"
  /\ sched' = [sched EXCEPT ![i].phase = "ended"]
  /\ scheduledSources' = scheduledSources \ {i}
  /\ isSpeaking' = IF scheduledSources \ {i} = {} THEN FALSE ELSE isSpeaking
  /\ last' = "onended"
  /\ UNCHANGED <<codecVars, captureVars, appVars>>
  /\ UNCHANGED processor
  /\ UNCHANGED <<status, isConnected, activeCard, isProcessingTool>>
  /\ UNCHANGED <<sessionRef, audioContextRef, inputContextRef, streamRef, processorRef,
                 sourceRef, nextStartTimeRef>>
  /\ UNCHANGED <<envVars, msgs, results, sinceError>>

\* onerror: setStatus('error'), nothing else.
onerrorTsx(n) ==
  /\ transport[n] \in {"connecting", "open"}
  /\ transport' = [transport EXCEPT ![n] = "errored"]
  /\ status' = "error"
  /\ sinceError' = (sinceError \/ status = "connected")
  /\ last' = "onerror"
  /\ UNCHANGED <<codecVars, captureVars, appVars>>
  /\ UNCHANGED processor
  /\ UNCHANGED <<isConnected, isSpeaking, activeCard, isProcessingTool, refVars>>
  /\ UNCHANGED <<clock, nsess, startPc, media, outCtx, inCtx, closeCalls, logVars>>

\* onclose: cleanup()
oncloseTsx(n) ==
  /\ transport[n] \in {"open", "closing", "errored"}
  /\ cleanupTsx("disconnected", [transport EXCEPT ![n] = "closed"])
  /\ last' = "onclose"
  /\ UNCHANGED <<codecVars, captureVars, appVars>>
  /\ UNCHANGED processor
  /\ UNCHANGED <<startPc, sinceError>>

NextTsx ==
  \/ ClickStartTsx
  \/ ClickEndTsx
  \/ \E n \in Sessions : MediaGrantedTsx(n)
  \/ \E n \in Sessions : MediaDeniedTsx(n)
  \/ \E n \in Sessions : onopenTsx(n)
  \/ \E n \in Sessions : onerrorTsx(n)
  \/ \E n \in Sessions : oncloseTsx(n)
  \/ \E n \in Sessions, msg \in AudioMessages : onmessageTsx(n, msg)
  \/ \E i \in 1..MaxWork : onendedTsx(i)
  \/ Tick

SpecTsx == Init /\ [][NextTsx]_vars

\* ===================================================================
\* components/LiveSession.js: the plain-JavaScript component.  Its cleanup
\* clears no ref and keeps no live-segment set.
\* ===================================================================
cleanupJs(tr) ==
  /\ transport' = RequestClose(tr, sessionRef)
  /\ closeCalls' = IF sessionRef # 0 THEN [closeCalls EXCEPT ![sessionRef] = @ + 1]
                   ELSE closeCalls
  /\ media' = IF streamRef # 0 THEN [media EXCEPT ![streamRef] = "stopped"] ELSE media
  /\ outCtx' = IF audioContextRef # 0 THEN [outCtx EXCEPT ![audioContextRef] = "closed"]
               ELSE outCtx
  /\ isConnected' = FALSE
  /\ status' = "disconnected"
  /\ UNCHANGED <<isSpeaking, activeCard, isProcessingTool, refVars>>
  /\ UNCHANGED <<clock, nsess, inCtx, logVars>>

startSessionJs ==
  /\ nsess < MaxSessions
  /\ nsess >= 1 => Work < MaxWork
  /\ LET n == nsess + 1 IN
       /\ nsess' = n
       /\ status' = "connecting"
       /\ audioContextRef' = n
       /\ inputContextRef' = n
       /\ outCtx' = [outCtx EXCEPT ![n] = "running"]
       /\ inCtx' = [inCtx EXCEPT ![n] = "running"]
       /\ clock' = 0
       /\ startPc' = [startPc EXCEPT ![n] = "awaitMedia"]
  /\ UNCHANGED <<isConnected, isSpeaking, activeCard, isProcessingTool>>
  /\ UNCHANGED <<sessionRef, streamRef, processorRef, sourceRef, nextStartTimeRef,
                 scheduledSources>>
  /\ UNCHANGED <<media, transport, closeCalls, logVars>>

\* onClick={isConnected ? cleanup : startSession}
ClickStartJs ==
  /\ ~isConnected
  /\ startSessionJs
  /\ sinceError' = FALSE
  /\ last' = "startSession"
  /\ UNCHANGED <<codecVars, captureVars, appVars>>
  /\ UNCHANGED processor

ClickEndJs ==
  /\ isConnected
  /\ cleanupJs(transport)
  /\ last' = "cleanup"
  /\ UNCHANGED <<codecVars, captureVars, appVars>>
  /\ UNCHANGED processor
  /\ UNCHANGED <<startPc, sinceError>>

MediaGrantedJs(n) ==
  /\ startPc[n] = "awaitMedia"
  /\ startPc' = [startPc EXCEPT ![n] = "done"]
  /\ media' = [media EXCEPT ![n] = "live"]
  /\ streamRef' = n
  /\ transport' = [transport EXCEPT ![n] = "connecting"]
  /\ sessionRef' = n
  /\ last' = "mediaGranted"
  /\ UNCHANGED <<codecVars, captureVars, appVars>>
  /\ UNCHANGED processor
  /\ UNCHANGED <<uiVars, audioContextRef, inputContextRef, processorRef, sourceRef,
                 nextStartTimeRef, scheduledSources>>
  /\ UNCHANGED <<clock, nsess, outCtx, inCtx, closeCalls, logVars, sinceError>>

\* catch (e) { cleanup(); }
MediaDeniedJs(n) ==
  /\ startPc[n] = "awaitMedia"
  /\ cleanupJs(transport)
  /\ startPc' = [startPc EXCEPT ![n] = "failed"]
  /\ last' = "mediaDenied"
  /\ UNCHANGED <<codecVars, captureVars, appVars>>
  /\ UNCHANGED processor
  /\ UNCHANGED sinceError

onopenJs(n) ==
  /\ transport[n] = "connecting"
  /\ transport' = [transport EXCEPT ![n] = IF closeCalls[n] > 0 THEN "closing" ELSE "open"]
  /\ status' = "connected"
  /\ isConnected' = TRUE
  /\ last' = "onopen"
  /\ UNCHANGED <<codecVars, captureVars, appVars>>
  /\ UNCHANGED processor
  /\ UNCHANGED <<isSpeaking, activeCard, isProcessingTool, refVars>>
  /\ UNCHANGED <<clock, nsess, startPc, media, outCtx, inCtx, closeCalls, logVars>>
  /\ UNCHANGED sinceError

\* onmessage: audioCtxRef is never cleared, so a chunk is scheduled on
\* whatever context it still names.
onmessageJs(n, msg) ==
  /\ transport[n] = "open"
  /\ Work + 1 <= MaxWork
  /\ LET m == Len(msgs) + 1 IN
       /\ IF msg.audio > 0 /\ audioContextRef # 0
            THEN IF msg.garbled
              THEN /\ isSpeaking' = TRUE
                   /\ UNCHANGED <<sched, nextStartTimeRef>>
              ELSE LET start == Max(nextStartTimeRef, clock) IN
                   /\ isSpeaking' = TRUE
                   /\ sched' = Append(sched, [ctx |-> audioContextRef, msg |-> m,
                                              start |-> start, dur |-> msg.audio,
                                              phase |-> "live"])
                   /\ nextStartTimeRef' = start + msg.audio
            ELSE UNCHANGED <<isSpeaking, sched, nextStartTimeRef>>
       /\ msgs' = Append(msgs, Logged([sess |-> n, calls |-> msg.calls,
                                       audio |-> msg.audio, garbled |-> msg.garbled,
                                       tc |-> msg.tc,
                                       pc |-> IF DecodeThrows(msg) THEN "threw" ELSE "done",
                                       idx |-> 0, stale |-> FALSE]))
  /\ last' = "onmessage"
  /\ UNCHANGED <<codecVars, captureVars, appVars>>
  /\ UNCHANGED processor
  /\ UNCHANGED <<status, isConnected, activeCard, isProcessingTool>>
  /\ UNCHANGED <<sessionRef, audioContextRef, inputContextRef, streamRef, processorRef,
                 sourceRef, scheduledSources>>
  /\ UNCHANGED <<envVars, results, sinceError>>

\* src.onended = () => setIsSpeaking(false); a source on a closed context
\* never ends.
onendedJs(i) ==
  /\ i \in DOMAIN sched
  /\ sched[i].phase = "live"
  /\ outCtx[sched[i].ctx] = "running"
  /\ clock >= sched[i].start + sched[i].dur
  /\ sched' = [sched EXCEPT ![i].phase = "ended"]
  /\ isSpeaking' = FALSE
  /\ last' = "onended"
  /\ UNCHANGED <<codecVars, captureVars, appVars>>
  /\ UNCHANGED processor
  /\ UNCHANGED <<status, isConnected, activeCard, isProcessingTool, refVars>>
  /\ UNCHANGED <<envVars, msgs, results, sinceError>>

\* onerror: cleanup
onerrorJs(n) ==
  /\ transport[n] \in {"connecting", "open"}
  /\ cleanupJs([transport EXCEPT ![n] = "errored"])
  /\ sinceError' = (sinceError \/ status = "connected")
  /\ last' = "onerror"
  /\ UNCHANGED <<codecVars, captureVars, appVars>>
  /\ UNCHANGED processor
  /\ UNCHANGED startPc

\* onclose: cleanup
oncloseJs(n) ==
  /\ transport[n] \in {"open", "closing", "errored"}
  /\ cleanupJs([transport EXCEPT ![n] = "closed"])
  /\ last' = "onclose"
  /\ UNCHANGED <<codecVars, captureVars, appVars>>
  /\ UNCHANGED processor
  /\ UNCHANGED <<startPc, sinceError>>

\* The clock of the context audioCtxRef names advances while it runs.
TickJs ==
  /\ audioContextRef # 0
  /\ outCtx[audioContextRef] = "running"
  /\ clock < MaxClock
  /\ clock' = clock + 1
  /\ last' = "tick"
  /\ UNCHANGED <<codecVars, captureVars, appVars>>
  /\ UNCHANGED processor
  /\ UNCHANGED <<uiVars, refVars, logVars>>
  /\ UNCHANGED <<nsess, startPc, media, outCtx, inCtx, transport, closeCalls, sinceError>>

NextJs ==
  \/ ClickStartJs
  \/ ClickEndJs
  \/ \E n \in Sessions : MediaGrantedJs(n)
  \/ \E n \in Sessions : MediaDeniedJs(n)
  \/ \E n \in Sessions : onopenJs(n)
  \/ \E n \in Sessions : onerrorJs(n)
  \/ \E n \in Sessions : oncloseJs(n)
  \/ \E n \in Sessions, msg \in AudioMessages : onmessageJs(n, msg)
  \/ \E i \in 1..MaxWork : onendedJs(i)
  \/ TickJs

SpecJs == Init /\ [][NextJs]_vars

\* ===================================================================
\* audioUtils (src/unnamed/part_007): the PCM codec.  A Float32 sample is
\* the integer x standing for x / (32768 * SubSteps); a decoded sample is
\* the integer e standing for e / 32768.
\* ===================================================================
SubSteps == 2     \* sample values explored between two neighbouring PCM levels
Edge     == 2     \* PCM levels explored next to -1.0, 0.0 and 1.0
MaxFrame == 2     \* samples in a frame, bytes in a foreign payload

FullScale == 32768 * SubSteps      \* the sample 1.0

Samples == {x \in (-FullScale)..FullScale :
              \/ x <= -FullScale + Edge * SubSteps
              \/ (-(Edge * SubSteps) <= x /\ x <= Edge * SubSteps)
              \/ x >= FullScale - Edge * SubSteps}

Frames == UNION {[1..k -> Samples] : k \in 1..MaxFrame}

\* Number -> integer the way a typed-array store does it: toward zero.
Trunc(a, b) == IF a >= 0 THEN a \div b ELSE -((-a) \div b)

\* The store into an Int16Array element: modulo 2^16, read back signed.
ToInt16(v) == LET u == v % 65536 IN IF u >= 32768 THEN u - 65536 ELSE u

\* new Uint8Array(int16.buffer): two bytes per element, low byte first.
RECURSIVE Int16Bytes(_)
Int16Bytes(a) ==
  IF a = <<>> THEN <<>>
  ELSE LET u == Head(a) % 65536 IN <<u % 256, u \div 256>> \o Int16Bytes(Tail(a))

\* btoa of the binary string built from the bytes: sextets, 64 is '='.
RECURSIVE Btoa(_)
Btoa(b) ==
  IF Len(b) = 0 THEN <<>>
  ELSE IF Len(b) = 1 THEN <<b[1] \div 4, (b[1] % 4) * 16, 64, 64>>
  ELSE IF Len(b) = 2
    THEN <<b[1] \div 4, (b[1] % 4) * 16 + b[2] \div 16, (b[2] % 16) * 4, 64>>
  ELSE <<b[1] \div 4, (b[1] % 4) * 16 + b[2] \div 16,
         (b[2] % 16) * 4 + b[3] \div 64, b[3] % 64>> \o Btoa(SubSeq(b, 4, Len(b)))

arrayBufferToBase64(bytes) == Btoa(bytes)

\* The text without its trailing padding, as atob strips it.
Unpadded(t) ==
  IF Len(t) % 4 = 0 /\ Len(t) >= 2 /\ t[Len(t)] = 64
    THEN IF t[Len(t) - 1] = 64 THEN SubSeq(t, 1, Len(t) - 2) ELSE SubSeq(t, 1, Len(t) - 1)
    ELSE t

\* atob throws InvalidCharacterError on such a text.
AtobThrows(t) ==
  LET u == Unpadded(t) IN Len(u) % 4 = 1 \/ \E i \in DOMAIN u : u[i] \notin 0..63

RECURSIVE AtobBytes(_)
AtobBytes(u) ==
  IF Len(u) < 2 THEN <<>>
  ELSE IF Len(u) = 2 THEN <<u[1] * 4 + u[2] \div 16>>
  ELSE IF Len(u) = 3 THEN <<u[1] * 4 + u[2] \div 16, (u[2] % 16) * 16 + u[3] \div 4>>
  ELSE <<u[1] * 4 + u[2] \div 16, (u[2] % 16) * 16 + u[3] \div 4, (u[3] % 4) * 64 + u[4]>>
         \o AtobBytes(SubSeq(u, 5, Len(u)))

base64ToUint8Array(t) == AtobBytes(Unpadded(t))

\* new Int16Array(data.buffer) over the bytes.
RECURSIVE BytesInt16(_)
BytesInt16(b) ==
  IF Len(b) < 2 THEN <<>>
  ELSE <<ToInt16(b[1] + 256 * b[2])>> \o BytesInt16(SubSeq(b, 3, Len(b)))

\* createPcmBlob: int16[i] = data[i] * 32768, then the bytes as base64.
createPcmBlob(data) ==
  arrayBufferToBase64(Int16Bytes([i \in DOMAIN data |-> ToInt16(Trunc(data[i], SubSteps))]))

\* Payloads that did not come from createPcmBlob: the base64 of a few byte
\* strings, and texts atob rejects (65 is a character outside the alphabet).
ForeignBytes == UNION {[1..k -> {0, 128, 255}] : k \in 1..(MaxFrame + 1)}
ForeignBlobs == {Btoa(b) : b \in ForeignBytes} \cup {<<0>>, <<0, 0, 0, 0, 0>>, <<0, 65, 0, 0>>}

InitCodec ==
  /\ InitSession
  /\ captured = 0 /\ events = <<>> /\ sendLog = <<>>
  /\ appName = <<>> /\ content = <<>> /\ openAppCard = NoCard
  /\ channelData = <<>>
  /\ \/ frame \in Frames /\ blob = <<>> /\ codecPc = "captured"
     \/ frame = <<>> /\ blob \in ForeignBlobs /\ codecPc = "encoded"

\* processor.onaudioprocess: createPcmBlob(inputData).
Encode ==
  /\ codecPc = "captured"
  /\ blob' = createPcmBlob(frame)
  /\ codecPc' = "encoded"
  /\ UNCHANGED <<frame, channelData>>
  /\ UNCHANGED <<uiVars, refVars, envVars, logVars, sinceError, last, processor, captureVars, appVars>>

\* decodeAudioData(base64ToUint8Array(blob), ctx, rate, 1): atob throws on
\* a bad text, new Int16Array(buffer) on an odd number of bytes; otherwise
\* channelData[i] = dataInt16[i] / 32768.
Decode ==
  /\ codecPc = "encoded"
  /\ IF AtobThrows(blob) \/ Len(base64ToUint8Array(blob)) % 2 = 1
       THEN codecPc' = "threw" /\ UNCHANGED channelData
       ELSE codecPc' = "decoded" /\ channelData' = BytesInt16(base64ToUint8Array(blob))
  /\ UNCHANGED <<frame, blob>>
  /\ UNCHANGED <<uiVars, refVars, envVars, logVars, sinceError, last, processor, captureVars, appVars>>

NextCodec == Encode \/ Decode

SpecCodec == InitCodec /\ [][NextCodec]_vars

\* ===================================================================
\* The capture pipeline of one connected session, frame by frame: the
\* ScriptProcessor fills a buffer and queues an audioprocess event for it;
\* the event loop delivers the events oldest first; the handler encodes
\* the buffer of its event and hands the blob to sendRealtimeInput.
\* ===================================================================
MaxCapture == 3     \* buffers the processor fills in a run

\* The buffers explored: silence, one PCM level and the two full-scale
\* samples.
CaptureData == {<<x>> : x \in {0, SubSteps, FullScale, -FullScale}}

\* The state after the first startSession, getUserMedia and onopen.
InitConnected ==
  /\ status = "connected" /\ isConnected = TRUE /\ isSpeaking = FALSE
  /\ activeCard = "none" /\ isProcessingTool = FALSE
  /\ sessionRef = 1 /\ audioContextRef = 1 /\ inputContextRef = 1
  /\ streamRef = 1 /\ processorRef = 1 /\ sourceRef = 1
  /\ nextStartTimeRef = 0 /\ scheduledSources = {}
  /\ clock = 0 /\ nsess = 1
  /\ startPc = [n \in Sessions |-> IF n = 1 THEN "done" ELSE "none"]
  /\ media = [n \in Sessions |-> IF n = 1 THEN "live" ELSE "none"]
  /\ outCtx = [n \in Sessions |-> IF n = 1 THEN "running" ELSE "none"]
  /\ inCtx = [n \in Sessions |-> IF n = 1 THEN "running" ELSE "none"]
  /\ transport = [n \in Sessions |-> IF n = 1 THEN "open" ELSE "none"]
  /\ closeCalls = [n \in Sessions |-> 0]
  /\ processor = [n \in Sessions |->
                    IF n = 1 THEN [ctx |-> 1, on |-> TRUE, late |-> FALSE] ELSE NoProcessor]
  /\ sched = <<>> /\ msgs = <<>> /\ results = <<>>
  /\ sinceError = FALSE
  /\ last = "onopen"
  /\ frame = <<>> /\ blob = <<>> /\ channelData = <<>> /\ codecPc = "idle"

InitCapture ==
  /\ InitConnected
  /\ captured = 0 /\ events = <<>> /\ sendLog = <<>>
  /\ appName = <<>> /\ content = <<>> /\ openAppCard = NoCard

\* createScriptProcessor(4096, 1, 1), connected to the source: the node
\* has filled its next buffer with data and queues the event for it.
BufferFilled(data) ==
  /\ processor[1].on /\ inCtx[processor[1].ctx] = "running"
  /\ captured < MaxCapture
  /\ captured' = captured + 1
  /\ events' = Append(events, [seq |-> captured + 1, inputData |-> data])
  /\ UNCHANGED sendLog
  /\ UNCHANGED <<uiVars, refVars, envVars, logVars, sinceError, last, processor, codecVars, appVars>>

\* A handler that hands every frame over twice.
onaudioprocessFrameTwice ==
  /\ events # <<>>
  /\ LET e == Head(events)
         pcmBlob == createPcmBlob(e.inputData)
     IN sendLog' = sendLog \o << [seq |-> e.seq, media |-> pcmBlob],
                                 [seq |-> e.seq, media |-> pcmBlob] >>
  /\ events' = Tail(events)
  /\ UNCHANGED captured
  /\ UNCHANGED <<uiVars, refVars, envVars, logVars, sinceError, last, processor, codecVars, appVars>>

\* processor.onaudioprocess for the oldest queued event e: inputData is
\* e.inputBuffer.getChannelData(0), pcmBlob = createPcmBlob(inputData), and
\* sessionPromise, resolved since onopen, runs the then-callback with
\* sendRealtimeInput({ media: pcmBlob }) before the task ends.
onaudioprocessFrame ==
  /\ events # <<>>
  /\ LET e == Head(events)
         pcmBlob == createPcmBlob(e.inputData)
     IN sendLog' = Append(sendLog, [seq |-> e.seq, media |-> pcmBlob])
  /\ events' = Tail(events)
  /\ UNCHANGED captured
  /\ UNCHANGED <<uiVars, refVars, envVars, logVars, sinceError, last, processor, codecVars, appVars>>

NextCapture ==
  \/ \E data \in CaptureData : BufferFilled(data)
  \/ onaudioprocessFrame

SpecCapture == InitCapture /\ [][NextCapture]_vars

\* ===================================================================
\* handleOpenApp (src/unnamed/part_001 lines 181-215).  A string is the
\* sequence of its characters.
\* ===================================================================
MaxContent == 2     \* characters in the content argument

Uppers == <<"A", "B", "C", "D", "E", "F", "G", "H", "I", "J", "K", "L", "M", "N", "O", "P", "Q", "R", "S", "T", "U", "V", "W", "X", "Y", "Z">>
Lowers == <<"a", "b", "c", "d", "e", "f", "g", "h", "i", "j", "k", "l", "m", "n", "o", "p", "q", "r", "s", "t", "u", "v", "w", "x", "y", "z">>

LowerOf(c) ==
  IF \E k \in DOMAIN Uppers : Uppers[k] = c
    THEN Lowers[CHOOSE k \in DOMAIN Uppers : Uppers[k] = c] ELSE c

UpperOf(c) ==
  IF \E k \in DOMAIN Lowers : Lowers[k] = c
    THEN Uppers[CHOOSE k \in DOMAIN Lowers : Lowers[k] = c] ELSE c

\* String.prototype.toLowerCase / toUpperCase.
toLowerCase(str) == [i \in DOMAIN str |-> LowerOf(str[i])]
toUpperCase(str) == [i \in DOMAIN str |-> UpperOf(str[i])]

\* appName.charAt(0).toUpperCase() + appName.slice(1)
Capitalised(str) == [i \in DOMAIN str |-> IF i = 1 THEN UpperOf(str[i]) ELSE str[i]]

\* String.prototype.includes.
Includes(str, sub) ==
  \E i \in 1..(Len(str) - Len(sub) + 1) : SubSeq(str, i, i + Len(sub) - 1) = sub

\* encodeURIComponent: letters stay, a space becomes %20.
RECURSIVE encodeURIComponent(_)
encodeURIComponent(str) ==
  IF str = <<>> THEN <<>>
  ELSE (IF Head(str) = " " THEN <<"%", "2", "0">> ELSE <<Head(str)>>)
         \o encodeURIComponent(Tail(str))

\* The names the open_app declaration lists (lines 57-60).
DeclaredApps == {
  <<"w", "h", "a", "t", "s", "a", "p", "p">>,
  <<"y", "o", "u", "t", "u", "b", "e">>,
  <<"m", "a", "p", "s">>,
  <<"c", "a", "l", "e", "n", "d", "a", "r">>,
  <<"f", "a", "c", "e", "b", "o", "o", "k">>,
  <<"t", "w", "i", "t", "t", "e", "r">>,
  <<"i", "n", "s", "t", "a", "g", "r", "a", "m">> }

\* Names the declaration does not list.
OtherApps == {
  <<"x", ".", "c", "o", "m">>,
  <<"c", "l", "o", "c", "k">>,
  <<"g", "m", "a", "i", "l">> }

\* The appName arguments explored: every name as written, capitalised and
\* in capitals.
AppNames ==
  LET base == DeclaredApps \cup OtherApps
  IN base \cup {Capitalised(a) : a \in base} \cup {toUpperCase(a) : a \in base}

\* The content arguments explored: absent (the default ''), or letters and
\* spaces.
Contents == UNION {[1..k -> {"h", " "}] : k \in 0..MaxContent}

\* The url handleOpenApp builds (lines 185-203): host, path, and the one
\* query parameter (key "" when there is none).
Url(host, path, key, value) == [host |-> host, path |-> path, key |-> key, value |-> value]

OpenAppUrl(app, text) ==
  LET encoded == encodeURIComponent(text)
      name == toLowerCase(app)
  IN IF Includes(name, <<"w", "h", "a", "t", "s", "a", "p", "p">>)
       THEN Url("wa.me", "/", "text", encoded)
     ELSE IF Includes(name, <<"y", "o", "u", "t", "u", "b", "e">>)
       THEN IF text # <<>> THEN Url("www.youtube.com", "/results", "search_query", encoded)
            ELSE Url("www.youtube.com", "", "", <<>>)
     ELSE IF Includes(name, <<"m", "a", "p">>)
       THEN IF text # <<>> THEN Url("www.google.com", "/maps/search/", "query", encoded)
            ELSE Url("maps.google.com", "", "", <<>>)
     ELSE IF Includes(name, <<"c", "a", "l", "e", "n", "d", "a", "r">>)
       THEN Url("calendar.google.com", "/calendar/r/eventedit", "text", encoded)
     ELSE IF Includes(name, <<"t", "w", "i", "t", "t", "e", "r">>) \/ Includes(name, <<"x", ".", "c", "o", "m">>)
       THEN Url("twitter.com", "/intent/tweet", "text", encoded)
     ELSE IF Includes(name, <<"f", "a", "c", "e", "b", "o", "o", "k">>)
       THEN Url("www.facebook.com", "", "", <<>>)
     ELSE Url("www.google.com", "/search", "q", app)

\* A connected session is about to run handleOpenApp(appName, content).
InitOpenApp ==
  /\ InitConnected
  /\ captured = 0 /\ events = <<>> /\ sendLog = <<>>
  /\ appName \in AppNames /\ content \in Contents
  /\ openAppCard = NoCard

\* handleOpenApp: the indicator is set and cleared again, the link card is
\* passed to setActiveCard.
handleOpenApp ==
  /\ openAppCard = NoCard
  /\ openAppCard' = [type |-> "link", title |-> Capitalised(appName),
                     url |-> OpenAppUrl(appName, content)]
  /\ activeCard' = "link"
  /\ isProcessingTool' = FALSE
  /\ last' = "openApp"
  /\ UNCHANGED <<appName, content>>
  /\ UNCHANGED <<status, isConnected, isSpeaking>>
  /\ UNCHANGED <<refVars, envVars, logVars, sinceError, processor, codecVars, captureVars>>

NextOpenApp == handleOpenApp

SpecOpenApp == InitOpenApp /\ [][NextOpenApp]_vars

\* ============================================================== claims
\* The steps that run cleanup(): the End button, onclose, onerror and
\* startSession's catch block.
CleanupSteps == {"cleanup", "onclose", "onerror", "mediaDenied"}

SegEnd(i) == sched[i].start + sched[i].dur

\* C1: within one session (one playback context) the start times handed to
\* source.start() are non-decreasing in scheduling order, and a segment
\* scheduled later starts no earlier than every earlier segment ends, so no
\* two intervals [start, start + duration) overlap.
C1_StartsOrderedNoOverlap ==
  \A i, j \in DOMAIN sched :
    (i < j /\ sched[i].ctx = sched[j].ctx) =>
      /\ sched[i].start <= sched[j].start
      /\ SegEnd(i) <= sched[j].start

\* Three chunks of one session: the second queued back-to-back behind the
\* first, the third after a silence gap.
C1_Witness ==
  /\ Len(sched) = 3
  /\ sched[1].ctx = sched[2].ctx /\ sched[2].ctx = sched[3].ctx
  /\ sched[2].start = SegEnd(1)
  /\ sched[3].start > SegEnd(2)

\* The results sendToolResponse was handed for call i of message m.
ResultsFor(m, i) == {k \in DOMAIN results : results[k].msg = m /\ results[k].pos = i}

\* C2: once the handling of a message that carried k tool calls is over
\* (it ran to its end or a handler threw), exactly one tool result has been
\* sent for each of the k call ids.
C2_OneResultPerCall ==
  \A m \in DOMAIN msgs :
    msgs[m].pc \in {"done", "threw"} =>
      \A i \in 1..Len(msgs[m].calls) : Cardinality(ResultsFor(m, i)) = 1

\* C4: a step that runs cleanup() stops every member of the live set and
\* empties it, stops the held capture stream and clears its reference,
\* closes and clears both audio contexts, requests the close of the held
\* transport and clears its reference; after the End button and after
\* onclose, where nothing follows cleanup(), the state is Disconnected.
C4_CleanupReleasesAll ==
  [][ last' \in CleanupSteps =>
        /\ \A i \in scheduledSources : sched'[i].phase = "stopped"
        /\ scheduledSources' = {}
        /\ streamRef # 0 => media'[streamRef] = "stopped"
        /\ streamRef' = 0
        /\ audioContextRef # 0 => outCtx'[audioContextRef] = "closed"
        /\ audioContextRef' = 0
        /\ inputContextRef # 0 => inCtx'[inputContextRef] = "closed"
        /\ inputContextRef' = 0
        /\ sessionRef # 0 => closeCalls'[sessionRef] = closeCalls[sessionRef] + 1
        /\ sessionRef' = 0
        /\ ~isConnected'
        /\ last' \in {"cleanup", "onclose"} => status' = "disconnected" ]_vars

\* The End button was pressed on a connected session with two segments
\* scheduled: both are stopped, every handle is released, the close of the
\* transport is under way.
C4_Witness ==
  /\ last = "cleanup"
  /\ Cardinality({i \in DOMAIN sched : sched[i].phase = "stopped"}) = 2
  /\ \E n \in Sessions :
       /\ transport[n] = "closing" /\ closeCalls[n] = 1
       /\ media[n] = "stopped" /\ outCtx[n] = "closed" /\ inCtx[n] = "closed"
  /\ status = "disconnected"

\* C6: from a transport error that hits a connected session until the next
\* startSession, the state is Failed ('error').
C6_FailedUntilRestart == sinceError => status = "error"

\* C7: the onclose callback runs cleanup(): every segment of the live set
\* is stopped, the live set is empty, the speaking signal is false and the
\* state is Disconnected.
C7_CloseStopsPlayback ==
  [][ last' = "onclose" =>
        /\ \A i \in scheduledSources : sched'[i].phase = "stopped"
        /\ scheduledSources' = {}
        /\ ~isSpeaking'
        /\ status' = "disconnected" ]_vars

\* The peer closed a connection while two segments were scheduled.
C7_Witness ==
  /\ last = "onclose"
  /\ Cardinality({i \in DOMAIN sched : sched[i].phase = "stopped"}) = 2
  /\ scheduledSources = {} /\ ~isSpeaking /\ status = "disconnected"

\* C8: no tool result is handed to sendToolResponse after a cleanup() that
\* ran while the call's handler was in flight.
C8_NoResultAfterCleanup == \A k \in DOMAIN results : ~results[k].post

\* A call the declarations do not cover: an undeclared name, or a declared
\* tool without its required argument.
Malformed(c) == c.name \notin ToolNames \/ ~c.arg

\* C9: for a call with an undeclared name or without its required argument
\* no handler runs (so none throws), and a result sent for it is a failure
\* text.
C9_MalformedRejected ==
  \A m \in DOMAIN msgs : \A i \in 1..Len(msgs[m].calls) :
    Malformed(msgs[m].calls[i]) =>
      /\ ~(msgs[m].pc = "threw" /\ msgs[m].idx = i)
      /\ \A k \in ResultsFor(m, i) : results[k].text = "fail"

\* C10: chunks of one session are scheduled in arrival order: the segment
\* of an earlier message starts no later than the segment of a later one.
C10_ArrivalOrder ==
  \A a, b \in DOMAIN sched :
    (msgs[sched[a].msg].sess = msgs[sched[b].msg].sess /\ sched[a].msg < sched[b].msg) =>
      sched[a].start <= sched[b].start

\* The state cleanup() works on: the component's state and refs, and what
\* was done to the handles (close requests, streams, contexts, segments).
cleanupVars == <<uiVars, refVars, closeCalls, media, outCtx, inCtx, sched>>

\* C3: a cleanup() issued right after a cleanup() (the End button or an
\* onclose, which are cleanup() and nothing else) changes nothing, closes
\* and stops nothing again, and the state is Disconnected after both.
C3_SecondCleanupChangesNothing ==
  [][ (last \in {"cleanup", "onclose"} /\ last' \in {"cleanup", "onclose"}) =>
        /\ UNCHANGED cleanupVars
        /\ status = "disconnected" /\ status' = "disconnected" ]_vars

\* C5: a startSession invoked while the state is Connecting or Connected
\* changes nothing: no audio context or capture stream is created, no
\* transport opened, and the session's references, cursor and state stay.
C5_StartRejectedWhileActive ==
  [][ (last' = "startSession" /\ status \in {"connecting", "connected"}) =>
        UNCHANGED <<status, isConnected, refVars, nsess, startPc, media, outCtx, inCtx,
                    transport>> ]_vars

\* The handling of message m ended in this step with the audio half
\* throwing in base64ToUint8Array / decodeAudioData.
DecodeFailed(m) ==
  /\ m \in DOMAIN msgs'
  /\ msgs'[m].pc = "threw" /\ msgs'[m].idx = 0
  /\ (m \notin DOMAIN msgs \/ msgs[m].pc = "await")

\* C11: a chunk that fails to decode is dropped and nothing else happens:
\* the scheduling cursor, the live-segment set and the segments scheduled
\* so far are as before the chunk arrived, and the state stays Connected.
C11_DecodeFailureDropsChunk ==
  [][ (\E m \in DOMAIN msgs' : DecodeFailed(m)) =>
        /\ UNCHANGED <<nextStartTimeRef, scheduledSources, sched>>
        /\ status' = "connected" ]_vars

Abs(v) == IF v >= 0 THEN v ELSE -v

\* C12: a frame of samples in [-1, 1] encoded by createPcmBlob and decoded
\* by decodeAudioData comes back sample for sample within 1/32768 of what
\* went in.
C12_RoundTripWithinOneStep ==
  (codecPc = "decoded" /\ frame # <<>>) =>
    /\ Len(channelData) = Len(frame)
    /\ \A i \in DOMAIN frame : Abs(frame[i] - channelData[i] * SubSteps) <= SubSteps

\* C13: the speaking signal is true exactly when the live-segment set is
\* non-empty.
C13_SpeakingIffLive == isSpeaking <=> (scheduledSources # {})

\* C14: when getUserMedia rejects for a startSession, that step leaves the
\* state Failed ('error'); the invocation never opens a transport
\* connection (so it never reaches Connected), and the two audio contexts
\* it created are closed.
C14_DeviceFailureFails ==
  [][ \A n \in Sessions :
        startPc'[n] = "failed" =>
          /\ startPc[n] # "failed" => status' = "error"
          /\ transport'[n] = "none"
          /\ outCtx'[n] = "closed" /\ inCtx'[n] = "closed" ]_vars

\* C15: a session that is Connecting when its connect promise rejects does
\* not stay there: eventually the state is Failed ('error').
C15_OpenFailureFails ==
  \A n \in Sessions :
    []((transport[n] = "rejected" /\ status = "connecting") => <>(status = "error"))

\* C16: a tool handler in flight holds back no audio: a message whose
\* handling is suspended in a tool handler has no chunk of its own still
\* waiting to be decoded and scheduled.
C16_ToolsNeverBlockPlayback ==
  \A m \in DOMAIN msgs : msgs[m].pc = "await" => msgs[m].audio = 0

\* C17: the calls of a batch are dispatched without waiting for one
\* another: whenever the handling of a batch is suspended in the handler
\* of one call, the handlers of all later calls of the batch have been
\* invoked as well, so the suspended call is the last of the batch.
C17_BatchDispatchedAtOnce ==
  \A m \in DOMAIN msgs : msgs[m].pc = "await" => msgs[m].idx = Len(msgs[m].calls)

\* C18: a failure while a message is handled is contained: when the
\* handling of a message ended in a throw, every call of its batch has been
\* answered all the same, and if it was a tool handler that threw, the
\* message's chunk has been scheduled (none is left behind).
C18_FailuresContained ==
  \A m \in DOMAIN msgs :
    msgs[m].pc = "threw" =>
      /\ \A i \in 1..Len(msgs[m].calls) : ResultsFor(m, i) # {}
      /\ msgs[m].idx > 0 => msgs[m].audio = 0

\* C19: the scheduling cursor never goes down except where startSession
\* sets it for a new session: no message, tool-call, segment, capture,
\* transport or cleanup step lowers it.
C19_CursorNeverLowered ==
  [][ last' # "startSession" => nextStartTimeRef' >= nextStartTimeRef ]_vars

\* A tool-call step has scheduled the chunk of its message behind the chunk
\* of a later message, leaving the cursor ahead of the audio clock.
C19_Witness ==
  /\ last = "toolDone"
  /\ Len(sched) = 2 /\ sched[1].ctx = sched[2].ctx
  /\ sched[2].start = SegEnd(1)
  /\ nextStartTimeRef = SegEnd(2) /\ nextStartTimeRef > clock

\* C20: a step that starts a segment starts it at max(cursor, clock) as
\* they are at that moment, hence not before the clock, and leaves the
\* cursor at that start time plus the segment's duration.
C20_SchedulingRule ==
  [][ Len(sched') = Len(sched) + 1 =>
        LET seg == sched'[Len(sched')] IN
          /\ seg.start = Max(nextStartTimeRef, clock)
          /\ seg.start >= clock
          /\ nextStartTimeRef' = seg.start + seg.dur ]_vars

\* A chunk that arrived after a silence gap: it starts at the clock, past
\* the end of the segment before it, and the cursor is at its end.
C20_Witness ==
  /\ last = "onmessage"
  /\ Len(sched) = 2 /\ sched[1].ctx = sched[2].ctx
  /\ sched[2].start = clock /\ sched[2].start > SegEnd(1)
  /\ nextStartTimeRef = SegEnd(2)

\* C21: the cursor a previous session left never delays a new one: the
\* first segment started on a session's playback context starts at the
\* audio clock as it is at that moment.
C21_FirstChunkAtClock ==
  [][ Len(sched') = Len(sched) + 1 =>
        LET seg == sched'[Len(sched')] IN
          (\A i \in DOMAIN sched : sched[i].ctx # seg.ctx) => seg.start = clock ]_vars

\* C22: a step that runs cleanup() resets the cursor: afterwards it is
\* back at zero (or at the audio clock), not at the value the session's
\* chunks had pushed it to.
C22_CleanupResetsCursor ==
  [][ last' \in CleanupSteps =>
        (nextStartTimeRef' = 0 \/ nextStartTimeRef' = clock') ]_vars

\* The steps in which onaudioprocess hands a frame to sendRealtimeInput.
FrameSteps == {"frameSent", "frameDropped"}

\* C23: a captured frame is handed to the transport only while the state
\* is Connected: none before the open signal, none after a cleanup().
C23_FramesOnlyWhileConnected ==
  [][ last' \in FrameSteps => (status = "connected" /\ isConnected) ]_vars

\* C24: a frame step, whether the frame went out or was dropped, touches
\* nothing but its own frame: the session state, the refs, the playback
\* schedule and the transports are as before, and every processor that was
\* capturing still is, so the next frame is encoded and handed over.
C24_CaptureNeverStalls ==
  [][ last' \in FrameSteps =>
        /\ UNCHANGED <<uiVars, refVars, envVars, logVars>>
        /\ \A n \in Sessions : processor'[n].on = processor[n].on
                               /\ processor'[n].ctx = processor[n].ctx ]_vars

\* A send failed on a connected session that is capturing and playing a
\* segment: the session is still connected, capturing and playing.
C24_Witness ==
  /\ last = "frameDropped"
  /\ status = "connected"
  /\ \E n \in Sessions : /\ processor[n].on /\ inCtx[processor[n].ctx] = "running"
                         /\ transport[n] = "open"
  /\ scheduledSources # {} /\ isSpeaking

\* The connections that are open or being opened, and the capture streams
\* whose tracks have not been stopped.
LiveTransports == {n \in Sessions : transport[n] \in {"connecting", "open"}}
HeldStreams == {n \in Sessions : media[n] = "live"}

\* C25: at most one session is live: never more than one connection open
\* or being opened, never more than one capture stream held.
C25_AtMostOneLiveSession ==
  /\ Cardinality(LiveTransports) <= 1
  /\ Cardinality(HeldStreams) <= 1

\* C26: Connected is entered only from Connecting, and only by the open
\* signal of the connection the current start opened; an open signal that
\* arrives when the state is Disconnected or Failed leaves it there.
C26_ConnectedOnlyFromConnecting ==
  [][ (status' = "connected" /\ status # "connected") =>
        /\ status = "connecting"
        /\ transport[nsess] = "connecting"
        /\ transport'[nsess] # "connecting" ]_vars

\* C27: in LiveSession.tsx an error signal that hits a connected session
\* runs cleanup(): in that step the held capture stream is stopped, every
\* live segment is stopped and the set emptied, the close of the held
\* transport is requested, and the state becomes Failed.
C27_ErrorRunsCleanup ==
  [][ (last' = "onerror" /\ status = "connected") =>
        /\ status' = "error"
        /\ streamRef # 0 => media'[streamRef] = "stopped"
        /\ \A i \in scheduledSources : sched'[i].phase = "stopped"
        /\ scheduledSources' = {}
        /\ sessionRef # 0 => closeCalls'[sessionRef] = closeCalls[sessionRef] + 1
        /\ ~isConnected' ]_vars

\* The segments that were started and whose source has neither played to
\* its end nor been stopped.
Playing(sc) == {i \in DOMAIN sc : sc[i].phase = "live"}

\* C28: the live set holds exactly the segments started and neither ended
\* nor stopped by cleanup(), and a message whose handler was in progress
\* when cleanup() ran adds no segment to the set afterwards.
C28_LiveSetExact ==
  [][ /\ scheduledSources' = Playing(sched')
      /\ \A i \in scheduledSources' \ scheduledSources : ~msgs'[sched'[i].msg].stale ]_vars

\* C29: the close or error signal of a connection that an earlier start
\* opened, delivered after a new startSession, leaves the new session
\* alone: its state, its handles, its capture stream, its segments and its
\* connection are as before.
C29_LateSignalsHarmless ==
  [][ \A n \in Sessions :
        ( /\ last' \in {"onclose", "onerror"}
          /\ transport'[n] # transport[n] /\ transport'[n] \in {"closed", "errored"}
          /\ n < nsess )
        => /\ UNCHANGED <<uiVars, refVars, media, sched, closeCalls, outCtx, inCtx>>
           /\ transport'[nsess] = transport[nsess] ]_vars

\* C30: while the state is Disconnected or Failed no capture stream is
\* held and no connection is open or being opened.
C30_NothingHeldWhenIdle ==
  status \in {"disconnected", "error"} =>
    (HeldStreams = {} /\ LiveTransports = {})

\* C31: the two state variables agree: isConnected is true if and only if
\* status is 'connected'.
C31_FlagsAgree == isConnected <=> (status = "connected")

\* The messages whose tool loop is suspended inside a handler.
InFlight == {m \in DOMAIN msgs : msgs[m].pc = "await"}

\* C32: the tool-running indicator is true exactly while at least one tool
\* handler is in flight.
C32_IndicatorIffHandlerRunning == isProcessingTool <=> (InFlight # {})

\* C33: frames are handed to the transport in capture order and each at
\* most once: the sequence numbers in the log of sendRealtimeInput
\* invocations increase strictly, and none is of a frame not yet captured.
C33_FramesInCaptureOrder ==
  /\ \A i, j \in DOMAIN sendLog : i < j => sendLog[i].seq < sendLog[j].seq
  /\ \A i \in DOMAIN sendLog : sendLog[i].seq \in 1..captured

\* Every buffer of the run was captured and handed over, the first two
\* with different contents.
C33_Witness ==
  /\ captured = MaxCapture /\ events = <<>>
  /\ Len(sendLog) = MaxCapture
  /\ sendLog[1].media # sendLog[2].media

\* C34: a handler that was in flight when cleanup() ran does not set the
\* action card afterwards: the step in which such a handler resumes leaves
\* the card as cleanup (or a newer session's tool call) left it.
C34_StaleHandlerSetsNoCard ==
  [][ (last' = "toolDone" /\ \E m \in DOMAIN msgs : msgs[m].stale /\ msgs'[m] # msgs[m])
        => activeCard' = activeCard ]_vars

\* The hosts of each declared application's own site.
OwnHosts(app) ==
  CASE app = <<"w", "h", "a", "t", "s", "a", "p", "p">> -> {"wa.me", "web.whatsapp.com", "api.whatsapp.com"}
    [] app = <<"y", "o", "u", "t", "u", "b", "e">> -> {"www.youtube.com", "youtube.com"}
    [] app = <<"m", "a", "p", "s">> -> {"maps.google.com", "www.google.com"}
    [] app = <<"c", "a", "l", "e", "n", "d", "a", "r">> -> {"calendar.google.com"}
    [] app = <<"f", "a", "c", "e", "b", "o", "o", "k">> -> {"www.facebook.com", "facebook.com"}
    [] app = <<"t", "w", "i", "t", "t", "e", "r">> -> {"twitter.com", "x.com"}
    [] app = <<"x", ".", "c", "o", "m">> -> {"twitter.com", "x.com"}
    [] app = <<"i", "n", "s", "t", "a", "g", "r", "a", "m">> -> {"www.instagram.com", "instagram.com"}
    [] OTHER -> {}

\* C35: for every declared app name handleOpenApp produces a link card
\* whose URL is on that application's own site (for maps on google.com
\* only under /maps); any other name gets a Google search URL.  x.com,
\* the site of twitter, counts as twitter.
C35_OpenAppTargetsOwnSite ==
  openAppCard # NoCard =>
    LET name == toLowerCase(appName)
        url == openAppCard.url
        search == url.host = "www.google.com" /\ url.path = "/search"
    IN /\ openAppCard.type = "link"
       /\ IF OwnHosts(name) # {}
            THEN url.host \in OwnHosts(name) /\ ~search
            ELSE search

====
